---- MODULE Spec2Model ----
(***************************************************************************)
(* Authentication / session subsystem of the contact-management backend:   *)
(* the token issuer (src/services/auth.py create_*_token), the three token *)
(* guards (get_current_user, decode_refresh_token, get_email_from_token),  *)
(* the Redis cache they populate, the user repository                      *)
(* (src/repository/users.py) and the contacts repository                   *)
(* (src/repository/contacts.py).                                           *)
(*                                                                         *)
(* Time is in whole seconds.  Python's None is the string "None" where a   *)
(* string is expected; an Optional value of another type is a set with at  *)
(* most one element ({} is None).                                          *)
(***************************************************************************)
EXTENDS Integers, Sequences, FiniteSets, TLC

VARIABLES
    now,      \* the wall clock (datetime.utcnow(), Redis server time), seconds
    db,       \* the users table: email -> User row
    cache,    \* the Redis keyspace: key -> [value, expireAt]
    held,     \* the token most recently handed to the client (at most one)
    res,      \* what the caller of the last operation observed
    commitAt, \* per user changed in the last 900 s, when the change was committed
    req,      \* the get_current_user calls in progress in the worker processes
    contacts, \* the contacts table: id -> Contact row
    contact_seq, \* the last id the contacts table handed out
    today,    \* the calendar day (datetime.today()), as [month, day]
    cres      \* what the caller of the last contact operation observed

contactVars == <<contacts, contact_seq, today, cres>>

authVars == <<now, db, cache, held, res, commitAt, req>>

vars == <<now, db, cache, held, res, commitAt, req, contactVars>>

---------------------------------------------------------------------------
(* Bounds of the model *)

\* how many users register
MaxUsers == 1

\* the instants the clock visits: start-up, the last second an access token
\* issued at start-up is accepted, and a week and a second later
Instants == {0, 900, 604801}

Emails == {"a@example.com", "b@example.com"}

---------------------------------------------------------------------------
(* Configuration and literals of the program *)

None == "None"

SECRET_KEY == "secret_key"
ALGORITHM == "HS256"

HTTP_401_UNAUTHORIZED == 401
HTTP_422_UNPROCESSABLE_ENTITY == 422

ACCESS_DEFAULT_TTL == 15 * 60
REFRESH_DEFAULT_TTL == 7 * 24 * 60 * 60
EMAIL_TOKEN_TTL == 1 * 24 * 60 * 60
CACHE_TTL == 900

---------------------------------------------------------------------------
(* Python dicts: a dict is a function from its keys *)

DictUpdate(d, e) ==
    [k \in (DOMAIN d) \cup (DOMAIN e) |-> IF k \in DOMAIN e THEN e[k] ELSE d[k]]

\* `if expires_delta:` -- None and 0 are both falsy
Truthy(expires_delta) == expires_delta # {} /\ expires_delta # {0}

OptVal(o) == CHOOSE x \in o : TRUE

---------------------------------------------------------------------------
(* What a handler hands back to its caller: a returned value or a raised   *)
(* exception.  HTTPException carries a status and a detail; every other    *)
(* exception is uncaught by the handler and carries neither.  A returned   *)
(* value is None, an email (a string) or a User row.                       *)

ReturnNone == [kind |-> "return", status |-> 0, detail |-> "", email |-> None, user |-> {}]
ReturnEmail(email) ==
    [kind |-> "return", status |-> 0, detail |-> "", email |-> email, user |-> {}]
ReturnUser(user) ==
    [kind |-> "return", status |-> 0, detail |-> "", email |-> None, user |-> {user}]
HTTPException(status_code, detail) ==
    [kind |-> "HTTPException", status |-> status_code, detail |-> detail,
     email |-> None, user |-> {}]
Raise(exc) == [kind |-> exc, status |-> 0, detail |-> "", email |-> None, user |-> {}]

---------------------------------------------------------------------------
(* jose.jwt: encode signs the claim set, decode checks form, algorithm,    *)
(* signature, the exp claim and the type of the sub claim.                 *)

Sign(claims, key, alg) == [key |-> key, alg |-> alg, over |-> claims]

JwtEncode(claims, key, alg) ==
    [wf |-> TRUE, alg |-> alg, claims |-> claims, sig |-> Sign(claims, key, alg)]

JwtDecode(token, key, algorithms, t) ==
    IF ~token.wf
    THEN [ok |-> FALSE, err |-> "JWTError", payload |-> <<>>]
    ELSE IF token.alg \notin algorithms
    THEN [ok |-> FALSE, err |-> "JWTError", payload |-> <<>>]
    ELSE IF token.sig # Sign(token.claims, key, token.alg)
    THEN [ok |-> FALSE, err |-> "JWTError", payload |-> <<>>]
    ELSE IF "exp" \in DOMAIN token.claims /\ token.claims["exp"] < t
    THEN [ok |-> FALSE, err |-> "ExpiredSignatureError", payload |-> <<>>]
    ELSE IF "sub" \in DOMAIN token.claims /\ token.claims["sub"] = None
    THEN [ok |-> FALSE, err |-> "JWTClaimsError", payload |-> <<>>]
    ELSE [ok |-> TRUE, err |-> "", payload |-> token.claims]

---------------------------------------------------------------------------
(* Token issuer *)

\* create_access_token with `to_encode = data.copy()` lost: only the claims
\* the issuer adds are encoded
create_access_token_without_data(data, expires_delta, t) ==
    LET expire == IF Truthy(expires_delta)
                  THEN t + OptVal(expires_delta)
                  ELSE t + ACCESS_DEFAULT_TTL
        to_encode == [iat |-> t, exp |-> expire, scope |-> "access_token"]
    IN  JwtEncode(to_encode, SECRET_KEY, ALGORITHM)

create_access_token(data, expires_delta, t) ==
    LET expire == IF Truthy(expires_delta)
                  THEN t + OptVal(expires_delta)
                  ELSE t + ACCESS_DEFAULT_TTL
        to_encode == DictUpdate(data, [iat |-> t, exp |-> expire, scope |-> "access_token"])
    IN  JwtEncode(to_encode, SECRET_KEY, ALGORITHM)

\* create_refresh_token letting the caller's claims win over the issuer's
create_refresh_token_data_last(data, expires_delta, t) ==
    LET expire == IF Truthy(expires_delta)
                  THEN t + OptVal(expires_delta)
                  ELSE t + REFRESH_DEFAULT_TTL
        to_encode == DictUpdate([iat |-> t, exp |-> expire, scope |-> "refresh_token"], data)
    IN  JwtEncode(to_encode, SECRET_KEY, ALGORITHM)

create_refresh_token(data, expires_delta, t) ==
    LET expire == IF Truthy(expires_delta)
                  THEN t + OptVal(expires_delta)
                  ELSE t + REFRESH_DEFAULT_TTL
        to_encode == DictUpdate(data, [iat |-> t, exp |-> expire, scope |-> "refresh_token"])
    IN  JwtEncode(to_encode, SECRET_KEY, ALGORITHM)

create_email_token(data, t) ==
    LET expire == t + EMAIL_TOKEN_TTL
        to_encode == DictUpdate(data, [iat |-> t, exp |-> expire, scope |-> "email_token"])
    IN  JwtEncode(to_encode, SECRET_KEY, ALGORITHM)

---------------------------------------------------------------------------
(* Token guards that touch no store *)

decode_refresh_token(refresh_token, t) ==
    LET d == JwtDecode(refresh_token, SECRET_KEY, {ALGORITHM}, t)
        payload == d.payload
    IN  IF ~d.ok
        THEN HTTPException(HTTP_401_UNAUTHORIZED, "Could not validate credentials")
        ELSE IF "scope" \notin DOMAIN payload
        THEN Raise("KeyError")
        ELSE IF payload["scope"] = "refresh_token"
        THEN IF "sub" \notin DOMAIN payload
             THEN Raise("KeyError")
             ELSE ReturnEmail(payload["sub"])
        ELSE HTTPException(HTTP_401_UNAUTHORIZED, "Invalid scope for token")

get_email_from_token(token, t) ==
    LET d == JwtDecode(token, SECRET_KEY, {ALGORITHM}, t)
        payload == d.payload
    IN  IF ~d.ok
        THEN HTTPException(HTTP_422_UNPROCESSABLE_ENTITY, "Invalid token for email verification")
        ELSE IF "scope" \notin DOMAIN payload
        THEN Raise("KeyError")
        ELSE IF payload["scope"] = "email_token"
        THEN IF "sub" \notin DOMAIN payload
             THEN Raise("KeyError")
             ELSE ReturnEmail(payload["sub"])
        ELSE HTTPException(HTTP_401_UNAUTHORIZED, "Invalid scope for token")

---------------------------------------------------------------------------
(* pickle: dumps wraps the object's state with its class, loads unwraps it *)

Dumps(obj) == [cls |-> "User", state |-> obj]
Loads(data) == data.state

---------------------------------------------------------------------------
(* The synchronous Redis client (redis.Redis).  A key set without an       *)
(* expiry lives forever (expireAt = NoExpiry); SET drops an earlier expiry;*)
(* a key whose expiry has passed is gone.  Every reply of this client is a *)
(* plain Python value, never an awaitable.                                 *)

NoExpiry == -1

RedisLive(c, key, t) ==
    key \in DOMAIN c /\ (c[key].expireAt = NoExpiry \/ t < c[key].expireAt)

RedisGet(c, key, t) == IF RedisLive(c, key, t) THEN {c[key].value} ELSE {}

RedisSet(c, key, value) ==
    [k \in (DOMAIN c) \cup {key} |->
        IF k = key THEN [value |-> value, expireAt |-> NoExpiry] ELSE c[k]]

RedisExpire(c, key, seconds, t) ==
    IF RedisLive(c, key, t) THEN [c EXCEPT ![key].expireAt = t + seconds] ELSE c

\* the Python type of what redis.Redis.set / .expire return (True)
RedisReplyType == "bool"

\* `await x` raises TypeError unless x is a coroutine (or another awaitable)
IsAwaitable(pytype) == pytype = "coroutine"

---------------------------------------------------------------------------
(* User repository (src/repository/users.py).  A User row keeps the fields *)
(* the guard caches: id, email, confirmed, refresh_token, avatar.          *)

UserDefaults == [confirmed |-> FALSE, refresh_token |-> None]

get_user_by_email(email, d) == IF email \in DOMAIN d THEN {d[email]} ELSE {}

create_user(body, avatar, d) ==
    LET new_user == [id |-> Cardinality(DOMAIN d) + 1,
                     email |-> body.email,
                     confirmed |-> UserDefaults.confirmed,
                     refresh_token |-> UserDefaults.refresh_token,
                     avatar |-> avatar]
    IN  [db |-> [e \in (DOMAIN d) \cup {body.email} |->
                    IF e = body.email THEN new_user ELSE d[e]],
         out |-> ReturnUser(new_user)]

update_token(user_email, token, d) ==
    [db |-> [d EXCEPT ![user_email].refresh_token = token], out |-> ReturnNone]

\* confirmed_email flipping the flag instead of setting it
confirmed_email_toggling(email, d) ==
    LET user == get_user_by_email(email, d)
    IN  IF user = {}
        THEN [db |-> d, out |-> Raise("AttributeError")]
        ELSE [db |-> [d EXCEPT ![email].confirmed = ~@], out |-> ReturnNone]

confirmed_email(email, d) ==
    LET user == get_user_by_email(email, d)
    IN  IF user = {}
        THEN [db |-> d, out |-> Raise("AttributeError")]
        ELSE [db |-> [d EXCEPT ![email].confirmed = TRUE], out |-> ReturnNone]

update_avatar(email, url, d) ==
    LET user == get_user_by_email(email, d)
    IN  IF user = {}
        THEN [db |-> d, out |-> Raise("AttributeError")]
        ELSE LET d2 == [d EXCEPT ![email].avatar = url]
             IN  [db |-> d2, out |-> ReturnUser(d2[email])]

---------------------------------------------------------------------------
(* Contacts repository (src/repository/contacts.py).  A Contact row has the *)
(* fields the repository reads and writes: id, user_id, first_name,        *)
(* last_name, email, phone_number, birth_date.  Text is a sequence of      *)
(* characters; a birth date keeps the month and the day the queries        *)
(* extract; a calendar day is [year, month, day].                          *)

\* how many contacts are ever created
MaxContacts == 2

IsLeap(year) == (year % 4 = 0 /\ year % 100 # 0) \/ year % 400 = 0

DaysInMonth(year, month) ==
    IF month = 2 THEN (IF IsLeap(year) THEN 29 ELSE 28)
    ELSE IF month \in {4, 6, 9, 11} THEN 30 ELSE 31

NextDay(date) ==
    IF date.day < DaysInMonth(date.year, date.month)
    THEN [date EXCEPT !.day = @ + 1]
    ELSE IF date.month < 12
    THEN [date EXCEPT !.month = @ + 1, !.day = 1]
    ELSE [year |-> date.year + 1, month |-> 1, day |-> 1]

\* date + timedelta(days=n)
RECURSIVE AddDays(_, _)
AddDays(date, n) == IF n = 0 THEN date ELSE AddDays(NextDay(date), n - 1)

\* str.lower() of one character of the alphabet in use
Lower(ch) ==
    CASE ch = "J" -> "j"
      [] ch = "D" -> "d"
      [] ch = "A" -> "a"
      [] OTHER -> ch

LowerText(text) == [i \in 1..Len(text) |-> Lower(text[i])]

\* column ILIKE '%query%': query occurs in text, letter case ignored
ILike(text, query) ==
    \E i \in 0..(Len(text) - Len(query)) :
        SubSeq(LowerText(text), i + 1, i + Len(query)) = LowerText(query)

\* the rows of a query without ORDER BY, as the table yields them: by id
RECURSIVE RowsById(_, _)
RowsById(table, ids) ==
    IF ids = {} THEN <<>>
    ELSE LET least == CHOOSE i \in ids : \A j \in ids : i <= j
         IN  <<table[least]>> \o RowsById(table, ids \ {least})

\* .first(): the first row or None
First(rows) == IF rows = <<>> THEN <<>> ELSE <<rows[1]>>

\* .limit(limit).offset(offset)
LimitOffset(rows, limit, offset) ==
    SubSeq(rows, offset + 1, IF offset + limit < Len(rows) THEN offset + limit ELSE Len(rows))

create_contact(body, current_user, table, seq) ==
    LET new_contact == [id |-> seq + 1, user_id |-> current_user.id,
                        first_name |-> body.first_name, last_name |-> body.last_name,
                        email |-> body.email, phone_number |-> body.phone_number,
                        birth_date |-> body.birth_date]
    IN  [contacts |-> [i \in (DOMAIN table) \cup {seq + 1} |->
                          IF i = seq + 1 THEN new_contact ELSE table[i]],
         seq |-> seq + 1,
         out |-> <<new_contact>>]

get_contacts(limit, offset, current_user, table) ==
    LET Mine(c) == c.user_id = current_user.id
    IN  LimitOffset(RowsById(table, {i \in DOMAIN table : Mine(table[i])}), limit, offset)

\* get_contact_by_id with the user_id filter left out
get_contact_by_id_of_anyone(contact_id, current_user, table) ==
    LET Wanted(c) == c.id = contact_id
    IN  First(RowsById(table, {i \in DOMAIN table : Wanted(table[i])}))

get_contact_by_id(contact_id, current_user, table) ==
    LET Wanted(c) == c.id = contact_id /\ c.user_id = current_user.id
    IN  First(RowsById(table, {i \in DOMAIN table : Wanted(table[i])}))

\* update_contact leaving birth_date as it was
update_contact_without_birth_date(body, contact_id, current_user, table) ==
    LET contact == get_contact_by_id(contact_id, current_user, table)
    IN  IF contact # <<>>
        THEN LET updated == [contact[1] EXCEPT
                                !.first_name = body.first_name,
                                !.last_name = body.last_name,
                                !.email = body.email,
                                !.phone_number = body.phone_number]
             IN  [contacts |-> [table EXCEPT ![contact_id] = updated],
                  out |-> <<updated>>]
        ELSE [contacts |-> table, out |-> contact]

update_contact(body, contact_id, current_user, table) ==
    LET contact == get_contact_by_id(contact_id, current_user, table)
    IN  IF contact # <<>>
        THEN LET updated == [contact[1] EXCEPT
                                !.first_name = body.first_name,
                                !.last_name = body.last_name,
                                !.email = body.email,
                                !.phone_number = body.phone_number,
                                !.birth_date = body.birth_date]
             IN  [contacts |-> [table EXCEPT ![contact_id] = updated],
                  out |-> <<updated>>]
        ELSE [contacts |-> table, out |-> contact]

remove_contact(contact_id, current_user, table) ==
    LET contact == get_contact_by_id(contact_id, current_user, table)
    IN  IF contact # <<>>
        THEN [contacts |-> [i \in (DOMAIN table) \ {contact_id} |-> table[i]],
              out |-> contact]
        ELSE [contacts |-> table, out |-> contact]

\* search_contacts with the user_id filter left out
search_contacts_of_everyone(query, current_user, table) ==
    LET Found(c) ==
            \/ ILike(c.first_name, query)
            \/ ILike(c.last_name, query)
            \/ ILike(c.email, query)
    IN  RowsById(table, {i \in DOMAIN table : Found(table[i])})

search_contacts(query, current_user, table) ==
    LET Found(c) ==
            /\ c.user_id = current_user.id
            /\ \/ ILike(c.first_name, query)
               \/ ILike(c.last_name, query)
               \/ ILike(c.email, query)
    IN  RowsById(table, {i \in DOMAIN table : Found(table[i])})

get_contacts_birthdays(current_user, table, date) ==
    LET today_month == date.month
        today_day == date.day
        future_date_month == AddDays(date, 7).month
        future_date_day == AddDays(date, 7).day
        Soon(c) ==
            /\ c.user_id = current_user.id
            /\ \/ (c.birth_date.month = today_month /\ c.birth_date.day >= today_day)
               \/ (c.birth_date.month = future_date_month
                     /\ c.birth_date.day <= future_date_day)
    IN  RowsById(table, {i \in DOMAIN table : Soon(table[i])})

---------------------------------------------------------------------------
(* Session guard: Auth.get_current_user *)

credentials_exception ==
    HTTPException(HTTP_401_UNAUTHORIZED, "Could not validate credentials")

NoCalls == [get |-> 0, lookup |-> 0, set |-> 0, expire |-> 0]

\* DecodeAccessToken with the scope comparison left out
DecodeAccessTokenAnyScope(token, t) ==
    LET d == JwtDecode(token, SECRET_KEY, {ALGORITHM}, t)
        payload == d.payload
    IN  IF ~d.ok
        THEN [ok |-> FALSE, out |-> credentials_exception, email |-> None]
        ELSE IF "sub" \notin DOMAIN payload
        THEN [ok |-> FALSE, out |-> Raise("KeyError"), email |-> None]
        ELSE [ok |-> TRUE, out |-> ReturnNone, email |-> payload["sub"]]

\* lines 152-162: decode the token, check the scope, take the subject
DecodeAccessToken(token, t) ==
    LET d == JwtDecode(token, SECRET_KEY, {ALGORITHM}, t)
        payload == d.payload
    IN  IF ~d.ok
        THEN [ok |-> FALSE, out |-> credentials_exception, email |-> None]
        ELSE IF "scope" \notin DOMAIN payload
        THEN [ok |-> FALSE, out |-> Raise("KeyError"), email |-> None]
        ELSE IF payload["scope"] = "access_token"
        THEN IF "sub" \notin DOMAIN payload
             THEN [ok |-> FALSE, out |-> Raise("KeyError"), email |-> None]
             ELSE IF payload["sub"] = None
             THEN [ok |-> FALSE, out |-> credentials_exception, email |-> None]
             ELSE [ok |-> TRUE, out |-> ReturnNone, email |-> payload["sub"]]
        ELSE [ok |-> FALSE, out |-> credentials_exception, email |-> None]

\* CacheKey with the email left out of the f-string
CacheKeyWithoutEmail(email) == "user:"

\* line 164: the f-string f"user:{email}"
CacheKey(email) == "user:" \o email

\* lines 170-172: pickle the row, SET it, await the reply, EXPIRE, await
PopulateCache(c, key, user, t) ==
    LET user_data == Dumps(user)
        c1 == RedisSet(c, key, user_data)
    IN  IF ~IsAwaitable(RedisReplyType)
        THEN [cache |-> c1, raised |-> TRUE, set |-> 1, expire |-> 0]
        ELSE [cache |-> RedisExpire(c1, key, CACHE_TTL, t),
              raised |-> ~IsAwaitable(RedisReplyType), set |-> 1, expire |-> 1]

\* MissPath with the absent user cached before it is refused
MissPathCachingAbsent(c, d, email, t) ==
    LET user == get_user_by_email(email, d)
    IN  IF user = {}
        THEN [cache |-> RedisSet(c, CacheKey(email), Dumps(None)),
              out |-> credentials_exception,
              calls |-> [get |-> 1, lookup |-> 1, set |-> 1, expire |-> 0]]
        ELSE LET p == PopulateCache(c, CacheKey(email), OptVal(user), t)
             IN  [cache |-> p.cache,
                  out |-> IF p.raised THEN Raise("TypeError") ELSE ReturnUser(OptVal(user)),
                  calls |-> [get |-> 1, lookup |-> 1, set |-> p.set, expire |-> p.expire]]

\* lines 166-172: the cache had no entry
MissPath(c, d, email, t) ==
    LET user == get_user_by_email(email, d)
    IN  IF user = {}
        THEN [cache |-> c, out |-> credentials_exception,
              calls |-> [get |-> 1, lookup |-> 1, set |-> 0, expire |-> 0]]
        ELSE LET p == PopulateCache(c, CacheKey(email), OptVal(user), t)
             IN  [cache |-> p.cache,
                  out |-> IF p.raised THEN Raise("TypeError") ELSE ReturnUser(OptVal(user)),
                  calls |-> [get |-> 1, lookup |-> 1, set |-> p.set, expire |-> p.expire]]

\* lines 173-175: the cache had an entry
HitPath(c, user_data) ==
    [cache |-> c, out |-> ReturnUser(Loads(user_data)),
     calls |-> [get |-> 1, lookup |-> 0, set |-> 0, expire |-> 0]]

get_current_user(token, c, d, t) ==
    LET v == DecodeAccessToken(token, t)
    IN  IF ~v.ok
        THEN [cache |-> c, out |-> v.out, calls |-> NoCalls]
        ELSE LET user_data == RedisGet(c, CacheKey(v.email), t)
             IN  IF user_data = {}
                 THEN MissPath(c, d, v.email, t)
                 ELSE HitPath(c, OptVal(user_data))

---------------------------------------------------------------------------
(* Inputs *)

\* claim sets handed to the issuers
ClaimSets ==
    {[sub |-> e] : e \in Emails}
    \cup {<<>>, [sub |-> None]}
    \cup {[sub |-> "a@example.com", scope |-> "refresh_token", iat |-> 1,
           exp |-> 2000000]}

\* expires_delta: omitted (None), zero, negative, positive
Deltas == {{}, {0}, {-60}, {60}}

RefreshTokenValues == {None, "rt1"}
AvatarUrls == {"https://avatar"}

Garbage == [wf |-> FALSE, alg |-> "", claims |-> <<>>, sig |-> <<>>]

\* the claims of a token altered after signing
Tamper(token) ==
    [token EXCEPT !.claims = DictUpdate(token.claims, [exp |-> token.claims["exp"] + 604800])]

\* the access tokens the login flow issues for a subject at time t
LoginTokens(t) == {create_access_token([sub |-> e], {}, t) : e \in Emails}

Presentable == held \cup {Tamper(x) : x \in held} \cup {Garbage} \cup LoginTokens(now)

\* the days the contact queries run on: inside a month, a week before the
\* end of a year, a week before the end of a leap February
FirstDay == [year |-> 2023, month |-> 3, day |-> 10]
Days ==
    {FirstDay, [year |-> 2023, month |-> 12, day |-> 28],
     [year |-> 2024, month |-> 2, day |-> 25]}

Before(d1, d2) ==
    \/ d1.year < d2.year
    \/ d1.year = d2.year /\ d1.month < d2.month
    \/ d1.year = d2.year /\ d1.month = d2.month /\ d1.day < d2.day

\* request bodies (ContactModel)
Bodies ==
    {[first_name |-> <<"J", "o">>, last_name |-> <<"D">>, email |-> <<"j", "@", "x">>,
      phone_number |-> <<"1">>, birth_date |-> [month |-> 3, day |-> 12]],
     [first_name |-> <<"A", "l">>, last_name |-> <<"D">>, email |-> <<"a", "@", "x">>,
      phone_number |-> <<"2">>, birth_date |-> [month |-> 3, day |-> 25]],
     [first_name |-> <<"j", "o">>, last_name |-> <<"O">>, email |-> <<"o", "@", "y">>,
      phone_number |-> <<"1">>, birth_date |-> [month |-> 1, day |-> 2]]}

Queries == {<<>>, <<"J">>, <<"o", "@">>, <<"z">>}
Limits == {1, 100}
Offsets == {0, 1}
ContactIds == 1..(MaxContacts + 1)

\* the users table after two registrations
TwoUsers ==
    LET d1 == create_user([email |-> "a@example.com"], "https://avatar", <<>>).db
    IN  create_user([email |-> "b@example.com"], "https://avatar", d1).db

\* the User a contact route gets from get_current_user
CurrentUsers == {db[e] : e \in DOMAIN db}

---------------------------------------------------------------------------
(* State machine *)

\* the last operation: its name, its arguments (a token, an email, a claim
\* set with an expires_delta; those it does not take are empty), what its
\* caller got and how many cache and users-table calls it made
NoArgs == [token |-> {}, email |-> None, data |-> {}, expires_delta |-> {}]
TokenArg(token) == [NoArgs EXCEPT !.token = {token}]
EmailArg(email) == [NoArgs EXCEPT !.email = email]
IssueArgs(data, expires_delta) ==
    [NoArgs EXCEPT !.data = {data}, !.expires_delta = expires_delta]

Result(op, arg, out, calls) == [op |-> op, arg |-> arg, out |-> out, calls |-> calls]

\* the worker processes that serve requests side by side
Requests == {"w1", "w2"}

\* a get_current_user call in progress: where it stands, its subject, the row
\* its lookup returned, what it wrote to the cache, whether a change of that
\* row was committed since its lookup, and what its caller got
NoRequest ==
    [pc |-> "idle", email |-> None, user |-> {}, wrote |-> {}, since |-> FALSE,
     out |-> ReturnNone]

\* db.commit() of a change of the row of `email`: the calls that looked the
\* row up before it now hold an older row
Disturb(rq, email) ==
    [r \in DOMAIN rq |->
        IF rq[r].email = email /\ (rq[r].pc = "found" \/ rq[r].wrote # {})
        THEN [rq[r] EXCEPT !.since = TRUE]
        ELSE rq[r]]

\* the commits that are at most 900 s old at time t
Recent(ca, t) ==
    LET keep == {e \in DOMAIN ca : t <= ca[e] + CACHE_TTL}
    IN  [e \in keep |-> ca[e]]

\* the books kept when a call changing the row of `email` ended with `out`
Commit(email, out) ==
    req' = IF out.kind = "return" THEN Disturb(req, email) ELSE req

\* the same with the time of the commit written down
CommitNoted(email, out) ==
    /\ Commit(email, out)
    /\ commitAt' = IF out.kind = "return"
                   THEN [e \in (DOMAIN commitAt) \cup {email} |->
                            IF e = email THEN now ELSE commitAt[e]]
                   ELSE commitAt

\* the last contact operation: its name, the id of current_user, the
\* contact_id and the body it was given (0 and {} when it takes none) and the
\* rows it returned (a single row or None is <<row>> or <<>>)
ContactResult(op, current_user, contact_id, body, out) ==
    [op |-> op, user_id |-> current_user.id, contact_id |-> contact_id,
     body |-> body, out |-> out]

NoContactResult ==
    [op |-> "none", user_id |-> 0, contact_id |-> 0, body |-> {}, out |-> <<>>]

InitContactVars ==
    /\ contacts = <<>>
    /\ contact_seq = 0
    /\ today = FirstDay
    /\ cres = NoContactResult

Init ==
    /\ now = 0
    /\ db = <<>>
    /\ cache = <<>>
    /\ held = {}
    /\ res = Result("none", NoArgs, ReturnNone, NoCalls)
    /\ commitAt = <<>>
    /\ req = [r \in Requests |-> NoRequest]
    /\ InitContactVars

Tick ==
    /\ \E t \in Instants : t > now /\ now' = t
    /\ commitAt' = Recent(commitAt, now')
    /\ UNCHANGED <<db, cache, held, res, req, contactVars>>

CreateUser ==
    \E email \in Emails, avatar \in {None} \cup AvatarUrls :
        /\ email \notin DOMAIN db
        /\ Cardinality(DOMAIN db) < MaxUsers
        /\ LET r == create_user([email |-> email], avatar, db)
           IN  /\ db' = r.db
               /\ res' = Result("create_user", EmailArg(email), r.out, NoCalls)
        /\ UNCHANGED <<now, cache, held, commitAt, req, contactVars>>

UpdateToken ==
    \E email \in DOMAIN db, token \in RefreshTokenValues :
        LET r == update_token(email, token, db)
        IN  /\ db' = r.db
            /\ res' = Result("update_token", EmailArg(email), r.out, NoCalls)
            /\ Commit(email, r.out)
            /\ UNCHANGED <<now, cache, held, commitAt, contactVars>>

ConfirmedEmail ==
    \E email \in Emails :
        LET r == confirmed_email(email, db)
        IN  /\ db' = r.db
            /\ res' = Result("confirmed_email", EmailArg(email), r.out, NoCalls)
            /\ Commit(email, r.out)
            /\ UNCHANGED <<now, cache, held, commitAt, contactVars>>

\* UpdateAvatar deleting the user's cache entry after the commit
UpdateAvatarEvicting ==
    \E email \in Emails, url \in AvatarUrls :
        LET r == update_avatar(email, url, db)
        IN  /\ db' = r.db
            /\ cache' = [k \in (DOMAIN cache) \ {CacheKey(email)} |-> cache[k]]
            /\ res' = Result("update_avatar", EmailArg(email), r.out, NoCalls)
            /\ Commit(email, r.out)
            /\ UNCHANGED <<now, held, commitAt, contactVars>>

UpdateAvatar ==
    \E email \in Emails, url \in AvatarUrls :
        LET r == update_avatar(email, url, db)
        IN  /\ db' = r.db
            /\ res' = Result("update_avatar", EmailArg(email), r.out, NoCalls)
            /\ Commit(email, r.out)
            /\ UNCHANGED <<now, cache, held, commitAt, contactVars>>

GetCurrentUser ==
    \E token \in Presentable :
        LET r == get_current_user(token, cache, db, now)
        IN  /\ cache' = r.cache
            /\ res' = Result("get_current_user", TokenArg(token), r.out, r.calls)
            /\ UNCHANGED <<now, db, held, commitAt, req, contactVars>>

DecodeRefreshToken ==
    \E token \in Presentable :
        /\ res' = Result("decode_refresh_token", TokenArg(token),
                        decode_refresh_token(token, now), NoCalls)
        /\ UNCHANGED <<now, db, cache, held, commitAt, req, contactVars>>

GetEmailFromToken ==
    \E token \in Presentable :
        /\ res' = Result("get_email_from_token", TokenArg(token),
                        get_email_from_token(token, now), NoCalls)
        /\ UNCHANGED <<now, db, cache, held, commitAt, req, contactVars>>

IssueAccessToken ==
    \E data \in ClaimSets, expires_delta \in Deltas :
        /\ held' = {create_access_token(data, expires_delta, now)}
        /\ res' = Result("create_access_token", IssueArgs(data, expires_delta),
                        ReturnNone, NoCalls)
        /\ UNCHANGED <<now, db, cache, commitAt, req, contactVars>>

IssueRefreshToken ==
    \E data \in ClaimSets, expires_delta \in Deltas :
        /\ held' = {create_refresh_token(data, expires_delta, now)}
        /\ res' = Result("create_refresh_token", IssueArgs(data, expires_delta),
                        ReturnNone, NoCalls)
        /\ UNCHANGED <<now, db, cache, commitAt, req, contactVars>>

IssueEmailToken ==
    \E data \in ClaimSets :
        /\ held' = {create_email_token(data, now)}
        /\ res' = Result("create_email_token", IssueArgs(data, {}), ReturnNone, NoCalls)
        /\ UNCHANGED <<now, db, cache, commitAt, req, contactVars>>

\* a change of a user's row (update_token, confirmed_email or update_avatar)
\* with the time of its commit written down
ChangeUser ==
    \E email \in DOMAIN db :
        \E r \in {update_token(email, token, db) : token \in RefreshTokenValues}
                 \cup {confirmed_email(email, db)}
                 \cup {update_avatar(email, url, db) : url \in AvatarUrls} :
            /\ db' = r.db
            /\ res' = Result("change_user", EmailArg(email), r.out, NoCalls)
            /\ CommitNoted(email, r.out)
            /\ UNCHANGED <<now, cache, held, contactVars>>

(* get_current_user served by several worker processes over the one Redis *)
(* and the one users table: each call of the cache or of the table is a    *)
(* round trip of its own, and the other workers run between them.          *)

\* the access token of the client whose requests the workers serve
RaceTokens(t) == {create_access_token([sub |-> "a@example.com"], {}, t)}

\* lines 152-164: decode the token and ask the cache
ReqGet(r) ==
    /\ req[r].pc \in {"idle", "done"}
    /\ \E token \in RaceTokens(now) :
          LET v == DecodeAccessToken(token, now)
              user_data == RedisGet(cache, CacheKey(v.email), now)
          IN  /\ v.ok
              /\ req' = [req EXCEPT ![r] =
                    IF user_data = {}
                    THEN [NoRequest EXCEPT !.pc = "missed", !.email = v.email]
                    ELSE [NoRequest EXCEPT !.pc = "done", !.email = v.email,
                                           !.out = HitPath(cache, OptVal(user_data)).out]]
    /\ UNCHANGED <<now, db, cache, held, res, commitAt, contactVars>>

\* lines 166-169: the cache had no entry, ask the users table
ReqLookup(r) ==
    /\ req[r].pc = "missed"
    /\ LET user == get_user_by_email(req[r].email, db)
       IN  req' = [req EXCEPT ![r] =
                 IF user = {}
                 THEN [@ EXCEPT !.pc = "done", !.out = credentials_exception]
                 ELSE [@ EXCEPT !.pc = "found", !.user = user]]
    /\ UNCHANGED <<now, db, cache, held, res, commitAt, contactVars>>

\* ReqSet pickling the row together with the worker's own session
ReqSetWithSession(r) ==
    /\ req[r].pc = "found"
    /\ LET key == CacheKey(req[r].email)
           p == PopulateCache(cache, key, OptVal(req[r].user), now)
           mine == [p.cache[key] EXCEPT !.value.cls = r]
       IN  /\ cache' = [p.cache EXCEPT ![key] = mine]
           /\ req' = [req EXCEPT ![r] =
                 [@ EXCEPT !.pc = "done", !.user = {}, !.wrote = {mine.value},
                           !.out = IF p.raised THEN Raise("TypeError")
                                   ELSE ReturnUser(OptVal(req[r].user))]]
    /\ UNCHANGED <<now, db, held, res, commitAt, contactVars>>

\* lines 170-177: write the row read to the cache; the call ends here, the
\* await of the reply to SET raising before EXPIRE is sent
ReqSet(r) ==
    /\ req[r].pc = "found"
    /\ LET key == CacheKey(req[r].email)
           p == PopulateCache(cache, key, OptVal(req[r].user), now)
       IN  /\ cache' = p.cache
           /\ req' = [req EXCEPT ![r] =
                 [@ EXCEPT !.pc = "done", !.user = {}, !.wrote = {p.cache[key].value},
                           !.out = IF p.raised THEN Raise("TypeError")
                                   ELSE ReturnUser(OptVal(req[r].user))]]
    /\ UNCHANGED <<now, db, held, res, commitAt, contactVars>>

(* The contacts repository behind its routes *)

InitContacts ==
    /\ now = 0
    /\ db = TwoUsers
    /\ cache = <<>>
    /\ held = {}
    /\ res = Result("none", NoArgs, ReturnNone, NoCalls)
    /\ commitAt = <<>>
    /\ req = [r \in Requests |-> NoRequest]
    /\ InitContactVars

NewDay ==
    /\ \E date \in Days : Before(today, date) /\ today' = date
    /\ UNCHANGED <<authVars, contacts, contact_seq, cres>>

CreateContact ==
    \E body \in Bodies, current_user \in CurrentUsers :
        /\ contact_seq < MaxContacts
        /\ LET r == create_contact(body, current_user, contacts, contact_seq)
           IN  /\ contacts' = r.contacts
               /\ contact_seq' = r.seq
               /\ cres' = ContactResult("create_contact", current_user, 0, {body}, r.out)
        /\ UNCHANGED <<authVars, today>>

GetContacts ==
    \E limit \in Limits, offset \in Offsets, current_user \in CurrentUsers :
        /\ cres' = ContactResult("get_contacts", current_user, 0, {},
                                 get_contacts(limit, offset, current_user, contacts))
        /\ UNCHANGED <<authVars, contacts, contact_seq, today>>

GetContactById ==
    \E contact_id \in ContactIds, current_user \in CurrentUsers :
        /\ cres' = ContactResult("get_contact_by_id", current_user, contact_id, {},
                                 get_contact_by_id(contact_id, current_user, contacts))
        /\ UNCHANGED <<authVars, contacts, contact_seq, today>>

UpdateContact ==
    \E body \in Bodies, contact_id \in ContactIds, current_user \in CurrentUsers :
        LET r == update_contact(body, contact_id, current_user, contacts)
        IN  /\ contacts' = r.contacts
            /\ cres' = ContactResult("update_contact", current_user, contact_id, {body}, r.out)
            /\ UNCHANGED <<authVars, contact_seq, today>>

RemoveContact ==
    \E contact_id \in ContactIds, current_user \in CurrentUsers :
        LET r == remove_contact(contact_id, current_user, contacts)
        IN  /\ contacts' = r.contacts
            /\ cres' = ContactResult("remove_contact", current_user, contact_id, {}, r.out)
            /\ UNCHANGED <<authVars, contact_seq, today>>

SearchContacts ==
    \E query \in Queries, current_user \in CurrentUsers :
        /\ cres' = ContactResult("search_contacts", current_user, 0, {},
                                 search_contacts(query, current_user, contacts))
        /\ UNCHANGED <<authVars, contacts, contact_seq, today>>

GetContactsBirthdays ==
    \E current_user \in CurrentUsers :
        /\ cres' = ContactResult("get_contacts_birthdays", current_user, 0, {},
                                 get_contacts_birthdays(current_user, contacts, today))
        /\ UNCHANGED <<authVars, contacts, contact_seq, today>>

NextContacts ==
    \/ NewDay
    \/ CreateContact
    \/ GetContacts
    \/ GetContactById
    \/ UpdateContact
    \/ RemoveContact
    \/ SearchContacts
    \/ GetContactsBirthdays

SpecContacts == InitContacts /\ [][NextContacts]_vars

\* the session guard in front of the user repository
Next ==
    \/ Tick
    \/ CreateUser
    \/ UpdateToken
    \/ ConfirmedEmail
    \/ UpdateAvatar
    \/ GetCurrentUser

Spec == Init /\ [][Next]_vars

\* the token issuer and the three guards
NextTokens ==
    \/ Tick
    \/ CreateUser
    \/ IssueAccessToken
    \/ IssueRefreshToken
    \/ IssueEmailToken
    \/ GetCurrentUser
    \/ DecodeRefreshToken
    \/ GetEmailFromToken

SpecTokens == Init /\ [][NextTokens]_vars

\* the session guard and the changes of the users' rows, over time
NextStale ==
    \/ Tick
    \/ CreateUser
    \/ ChangeUser
    \/ GetCurrentUser

SpecStale == Init /\ [][NextStale]_vars

\* the guard in several workers, beside the user repository
NextRace ==
    \/ CreateUser
    \/ ConfirmedEmail
    \/ UpdateAvatar
    \/ \E r \in Requests : ReqGet(r)
    \/ \E r \in Requests : ReqLookup(r)
    \/ \E r \in Requests : ReqSet(r)

SpecRace == Init /\ [][NextRace]_vars

---------------------------------------------------------------------------
(* Vocabulary of the properties *)

Scopes == {"access_token", "refresh_token", "email_token"}
GuardOps == {"get_current_user", "decode_refresh_token", "get_email_from_token"}

ExpectedScope(op) ==
    CASE op = "get_current_user" -> "access_token"
      [] op = "decode_refresh_token" -> "refresh_token"
      [] op = "get_email_from_token" -> "email_token"

\* signed by this process with its key and algorithm, claims untouched
WellSigned(token) ==
    /\ token.wf
    /\ token.alg = "HS256"
    /\ token.sig = [key |-> "secret_key", alg |-> "HS256", over |-> token.claims]

\* a well-signed access token for subject e that has not expired at time t
ValidAccessFor(token, e, t) ==
    /\ WellSigned(token)
    /\ {"sub", "scope", "exp"} \subseteq DOMAIN token.claims
    /\ token.claims["scope"] = "access_token"
    /\ token.claims["sub"] = e
    /\ token.claims["exp"] >= t

\* this step is a get_current_user call presenting a valid access token for e
ResolveStep(e) ==
    /\ res'.op = "get_current_user"
    /\ \E token \in res'.arg.token : ValidAccessFor(token, e, now)
    /\ GetCurrentUser

HasEntry(c, e, t) ==
    /\ ("user:" \o e) \in DOMAIN c
    /\ (c["user:" \o e].expireAt = -1 \/ t < c["user:" \o e].expireAt)

\* what the caller can tell a failure by
Observed(out) == <<out.kind, out.status, out.detail>>

AuthenticationError == <<"HTTPException", 401, "Could not validate credentials">>

---------------------------------------------------------------------------
(* Cache-aside behaviour of get_current_user (specification Spec) *)

\* C1: a get_current_user call with a valid access token for e, made when the
\* cache has no entry under "user:"+e and the users table holds e, returns
\* that User and leaves a snapshot of it under "user:"+e expiring 900 s later.
C1_MissReturnsUserAndCaches ==
    [][ \A e \in Emails :
          (~HasEntry(cache, e, now) /\ e \in DOMAIN db /\ ResolveStep(e))
          => /\ res'.out.kind = "return"
             /\ res'.out.user = {db[e]}
             /\ HasEntry(cache', e, now)
             /\ cache'["user:" \o e].value.state = db[e]
             /\ cache'["user:" \o e].expireAt = now + 900 ]_vars

\* C2: from an empty cache and a known user, a first get_current_user makes
\* exactly one users-table lookup and one cache set and succeeds; a call for
\* a subject whose entry is in the cache makes no lookup and returns the
\* cached snapshot.
C2_CacheAsideCallCounts ==
    [][ \A e \in Emails :
          /\ (cache = <<>> /\ e \in DOMAIN db /\ ResolveStep(e))
             => /\ res'.calls.lookup = 1
                /\ res'.calls.set = 1
                /\ res'.out.kind = "return"
          /\ (HasEntry(cache, e, now) /\ ResolveStep(e))
             => /\ res'.calls.lookup = 0
                /\ res'.out.kind = "return"
                /\ res'.out.user = {cache["user:" \o e].value.state} ]_vars

\* C3: a get_current_user call with a valid access token whose subject has no
\* cache entry and no row in the users table fails with 401 "Could not
\* validate credentials" and leaves the cache exactly as it was, making no
\* set and no expire call.
C3_UnknownSubjectLeavesCache ==
    [][ \A e \in Emails :
          (~HasEntry(cache, e, now) /\ e \notin DOMAIN db /\ ResolveStep(e))
          => /\ Observed(res'.out) = AuthenticationError
             /\ cache' = cache
             /\ res'.calls.set = 0
             /\ res'.calls.expire = 0 ]_vars

\* a call for a subject unknown to the users table and to the cache was
\* answered with the 401
C3_Witness ==
    \E e \in Emails :
        /\ res.op = "get_current_user"
        /\ \E token \in res.arg.token : ValidAccessFor(token, e, now)
        /\ e \notin DOMAIN db
        /\ ("user:" \o e) \notin DOMAIN cache
        /\ res.calls.lookup = 1
        /\ Observed(res.out) = AuthenticationError

---------------------------------------------------------------------------
(* Issuer and guards (specification SpecTokens) *)

\* this step is a call of one of the three guards
GuardStep ==
    /\ res'.op \in GuardOps
    /\ GetCurrentUser \/ DecodeRefreshToken \/ GetEmailFromToken

\* this step presents the token just issued to the guard of its own kind
OwnGuardStep ==
    /\ res'.arg.token = held
    /\ \A token \in held : token.claims["iat"] = now
    /\ \/ res.op = "create_access_token" /\ res'.op = "get_current_user" /\ GetCurrentUser
       \/ res.op = "create_refresh_token" /\ res'.op = "decode_refresh_token"
            /\ DecodeRefreshToken

\* C4: a well-signed token of one scope presented to the guard of another
\* scope is rejected; get_current_user rejects it with the 401 "Could not
\* validate credentials", yields no User and touches neither store.
C4_ScopeSeparation ==
    \A token \in res.arg.token :
        ( /\ res.op \in GuardOps
          /\ WellSigned(token)
          /\ "scope" \in DOMAIN token.claims
          /\ token.claims["scope"] \in Scopes
          /\ token.claims["scope"] # ExpectedScope(res.op) )
        => /\ res.out.kind = "HTTPException"
           /\ res.out.user = {}
           /\ res.out.email = None
           /\ res.op = "get_current_user"
                => Observed(res.out) = AuthenticationError /\ res.calls = NoCalls

\* an unexpired refresh token was presented to get_current_user and refused
C4_Witness ==
    /\ res.op = "get_current_user"
    /\ \E token \in res.arg.token :
          /\ WellSigned(token)
          /\ token.claims["scope"] = "refresh_token"
          /\ token.claims["exp"] >= now
          /\ "sub" \in DOMAIN token.claims
          /\ token.claims["sub"] \in DOMAIN db
    /\ Observed(res.out) = AuthenticationError

\* C5: every guard rejects a token whose exp lies before the time of the
\* call, and an access or refresh token issued with expires_delta <= 0 is
\* rejected by its own guard right after it was issued.
C5_ExpiryEnforced ==
    [][ /\ \A token \in res'.arg.token :
              (token.wf /\ "exp" \in DOMAIN token.claims
                        /\ token.claims["exp"] < now /\ GuardStep)
              => res'.out.kind # "return"
        /\ ( /\ res.arg.expires_delta # {}
             /\ OptVal(res.arg.expires_delta) <= 0
             /\ OwnGuardStep )
           => res'.out.kind # "return" ]_vars

\* C6: create_access_token and create_refresh_token embed exp = now +
\* expires_delta for every expires_delta given (zero and negative included)
\* and the default (900 s, 7 days) only when it is omitted; create_email_token
\* embeds exp = now + 1 day.
C6_ExpiryComputation ==
    [][ \A token \in held' :
          /\ (res'.op = "create_access_token" /\ IssueAccessToken)
             => token.claims["exp"] =
                  now + (IF res'.arg.expires_delta = {} THEN 900
                         ELSE OptVal(res'.arg.expires_delta))
          /\ (res'.op = "create_refresh_token" /\ IssueRefreshToken)
             => token.claims["exp"] =
                  now + (IF res'.arg.expires_delta = {} THEN 604800
                         ELSE OptVal(res'.arg.expires_delta))
          /\ (res'.op = "create_email_token" /\ IssueEmailToken)
             => token.claims["exp"] = now + 86400 ]_vars

\* C7: a token issued for a claim set with a subject (and not already past
\* its expiry when issued) verifies in the second it was issued, in the
\* guard of its kind, to the same subject; an access token decodes with
\* scope access_token.
C7_IssueVerifyRoundTrip ==
    \A data \in res.arg.data, token \in held :
        ( /\ "sub" \in DOMAIN data
          /\ data["sub"] # None
          /\ (res.arg.expires_delta = {} \/ OptVal(res.arg.expires_delta) >= 0)
          /\ token.claims["iat"] = now )
        => /\ res.op = "create_access_token"
              => /\ DecodeAccessToken(token, now).ok
                 /\ DecodeAccessToken(token, now).email = data["sub"]
                 /\ JwtDecode(token, SECRET_KEY, {ALGORITHM}, now).payload["scope"]
                      = "access_token"
           /\ res.op = "create_refresh_token"
              => decode_refresh_token(token, now) = ReturnEmail(data["sub"])
           /\ res.op = "create_email_token"
              => get_email_from_token(token, now) = ReturnEmail(data["sub"])

\* an access token was presented to get_current_user in the second it was
\* issued and resolved to the User of its subject
C7_Witness ==
    /\ res.op = "get_current_user"
    /\ res.arg.token = held
    /\ \E token \in held :
          /\ token.claims["iat"] = now
          /\ token.claims["scope"] = "access_token"
          /\ res.out.kind = "return"
          /\ \E u \in res.out.user : u.email = token.claims["sub"]

\* C8: get_current_user given a well-signed, unexpired access token without
\* a sub claim fails with the 401 "Could not validate credentials" and makes
\* no cache or users-table call.
C8_MissingSubjectRejected ==
    [][ \A token \in res'.arg.token :
          ( /\ res'.op = "get_current_user"
            /\ WellSigned(token)
            /\ {"scope", "exp"} \subseteq DOMAIN token.claims
            /\ token.claims["scope"] = "access_token"
            /\ token.claims["exp"] >= now
            /\ "sub" \notin DOMAIN token.claims
            /\ GetCurrentUser )
          => /\ Observed(res'.out) = AuthenticationError
             /\ res'.calls = NoCalls
             /\ cache' = cache ]_vars

\* a get_current_user call refused by one of its validation steps
Rejected(r) ==
    /\ r.op = "get_current_user"
    /\ r.out.kind # "return"
    /\ r.calls.set = 0

\* C9: every get_current_user call refused by a validation step shows its
\* caller the same failure, the 401 "Could not validate credentials", so any
\* two refused calls look alike.
C9_UniformFailure == Rejected(res) => Observed(res.out) = AuthenticationError

---------------------------------------------------------------------------
(* Staleness (specification Spec) *)

\* C10: while a cache entry lives nothing changes it, a mutation of the
\* user's row (update_token, confirmed_email, update_avatar) does not evict
\* it, and every get_current_user for that user returns the entry's
\* snapshot.
C10_StaleSnapshotServed ==
    [][ \A e \in Emails :
          /\ (HasEntry(cache, e, now) /\ HasEntry(cache', e, now'))
             => cache'["user:" \o e] = cache["user:" \o e]
          /\ ( /\ HasEntry(cache, e, now)
               /\ res'.op \in {"update_token", "confirmed_email", "update_avatar"}
               /\ UpdateToken \/ ConfirmedEmail \/ UpdateAvatar )
             => HasEntry(cache', e, now')
          /\ (HasEntry(cache, e, now) /\ ResolveStep(e))
             => /\ res'.out.kind = "return"
                /\ res'.out.user = {cache["user:" \o e].value.state} ]_vars

\* a call returned a snapshot that differs from the user's row
C10_Witness ==
    \E e \in DOMAIN db :
        /\ res.op = "get_current_user"
        /\ \E token \in res.arg.token : ValidAccessFor(token, e, now)
        /\ HasEntry(cache, e, now)
        /\ cache["user:" \o e].value.state # db[e]
        /\ res.out.kind = "return"
        /\ res.out.user = {cache["user:" \o e].value.state}

---------------------------------------------------------------------------
(* The guard in several workers (specification SpecRace) *)

\* two calls for the same subject that both missed the cache and both wrote
BothWrote(r1, r2) ==
    /\ r1 # r2
    /\ req[r1].pc = "done" /\ req[r2].pc = "done"
    /\ req[r1].email = req[r2].email
    /\ req[r1].wrote # {} /\ req[r2].wrote # {}

C12_EveryEntryExpires ==
    \A key \in DOMAIN cache :
        /\ cache[key].expireAt # -1
        /\ cache[key].expireAt <= now + 900

\* C13: a get_current_user call made more than 900 s after the last change
\* of the user's row was committed returns the row as changed.
C13_BoundedStaleness ==
    [][ \A e \in DOMAIN db :
          ( /\ e \notin DOMAIN commitAt
            /\ res'.out.kind = "return"
            /\ ResolveStep(e) )
          => res'.out.user = {db[e]} ]_vars

---------------------------------------------------------------------------
(* Failures of the refresh and email guards (specification SpecTokens) *)

TokenError == <<"HTTPException", 422, "Invalid token for email verification">>

\* a well-signed, unexpired token whose scope is one of the three but not s
WrongScopeFor(token, s, t) ==
    /\ WellSigned(token)
    /\ {"scope", "exp"} \subseteq DOMAIN token.claims
    /\ token.claims["exp"] >= t
    /\ token.claims["scope"] \in Scopes \ {s}

\* C14: get_email_from_token refuses a malformed, badly signed or expired
\* token and a well-signed token of another scope with 422 "Invalid token
\* for email verification", never with a 401; when it returns, it returns
\* the token's subject.
C14_EmailGuardFailure ==
    [][ \A token \in res'.arg.token :
          (res'.op = "get_email_from_token" /\ GetEmailFromToken)
          => /\ ( \/ ~WellSigned(token)
                  \/ token.claims["exp"] < now
                  \/ WrongScopeFor(token, "email_token", now) )
                => /\ Observed(res'.out) = TokenError
                   /\ res'.out.status # 401
             /\ res'.out.kind = "return" => res'.out.email = token.claims["sub"] ]_vars

\* C15: the refusal decode_refresh_token gives a well-signed token of the
\* wrong scope differs, in status or in message, from the refusal
\* get_email_from_token gives a well-signed token of the wrong scope (here:
\* the two guards called one after the other).
C15_ScopeMismatchDistinct ==
    [][ \A t1 \in res.arg.token, t2 \in res'.arg.token :
          ( /\ res.op = "decode_refresh_token"
            /\ WrongScopeFor(t1, "refresh_token", now)
            /\ res'.op = "get_email_from_token"
            /\ WrongScopeFor(t2, "email_token", now)
            /\ GetEmailFromToken )
          => Observed(res.out) # Observed(res'.out) ]_vars

---------------------------------------------------------------------------
(* Contacts repository (specification SpecContacts) *)

\* contact_id names a contact of the user with id user_id
Owned(table, contact_id, user_id) ==
    contact_id \in DOMAIN table /\ table[contact_id].user_id = user_id

\* the rows a result holds
RowsOf(out) == {out[k] : k \in 1..Len(out)}

\* C16: get_contact_by_id, update_contact and remove_contact called with a
\* contact_id that names no contact of current_user (none at all, or one of
\* another user) return None and leave the contacts table as it was.  (A
\* step that changes cres is the call cres' records.)
C16_ContactNotFound ==
    [][ ( /\ cres' # cres
          /\ cres'.op \in {"get_contact_by_id", "update_contact", "remove_contact"}
          /\ ~Owned(contacts, cres'.contact_id, cres'.user_id) )
        => /\ cres'.out = <<>>
           /\ contacts' = contacts ]_vars

\* update_contact was refused for a contact that exists and is another user's
C16_Witness ==
    /\ cres.op = "update_contact"
    /\ cres.contact_id \in DOMAIN contacts
    /\ contacts[cres.contact_id].user_id # cres.user_id
    /\ \A body \in cres.body :
          body.first_name # contacts[cres.contact_id].first_name
    /\ cres.out = <<>>

\* C17: update_contact on a contact of current_user sets first_name,
\* last_name, email, phone_number and birth_date to the body's, returns the
\* updated contact and leaves its id, its user_id and every other contact
\* as they were.
C17_UpdateContactFrame ==
    [][ \A body \in cres'.body :
          ( /\ cres'.op = "update_contact"
            /\ Owned(contacts, cres'.contact_id, cres'.user_id)
            /\ UpdateContact )
          => /\ DOMAIN contacts' = DOMAIN contacts
             /\ contacts'[cres'.contact_id] =
                   [id |-> contacts[cres'.contact_id].id,
                    user_id |-> contacts[cres'.contact_id].user_id,
                    first_name |-> body.first_name, last_name |-> body.last_name,
                    email |-> body.email, phone_number |-> body.phone_number,
                    birth_date |-> body.birth_date]
             /\ cres'.out = <<contacts'[cres'.contact_id]>>
             /\ \A i \in (DOMAIN contacts) \ {cres'.contact_id} :
                   contacts'[i] = contacts[i] ]_vars

\* update_contact returned an updated contact while the table held another
C17_Witness ==
    /\ cres.op = "update_contact"
    /\ cres.out # <<>>
    /\ cres.out[1].id = cres.contact_id
    /\ \A body \in cres.body : cres.out[1].birth_date = body.birth_date
    /\ \E i \in DOMAIN contacts :
          i # cres.contact_id /\ contacts[i].birth_date # cres.out[1].birth_date

\* the month and day of today, today + 1, ..., today + 7
BirthdayWindow(date) ==
    {[month |-> AddDays(date, k).month, day |-> AddDays(date, k).day] : k \in 0..7}

\* C18: get_contacts_birthdays returns exactly the contacts of current_user
\* whose birth_date's month and day fall on one of the days today .. today+7,
\* whatever today is.
C18_BirthdaysWithinWeek ==
    [][ (cres'.op = "get_contacts_birthdays" /\ GetContactsBirthdays)
        => RowsOf(cres'.out) =
             {contacts[i] : i \in {j \in DOMAIN contacts :
                  /\ contacts[j].user_id = cres'.user_id
                  /\ contacts[j].birth_date \in BirthdayWindow(today)}} ]_vars

\* C20: create_contact stores and returns a contact whose user_id is the id
\* of current_user; every contact operation returns only contacts whose
\* user_id is the id of its current_user, and changes or deletes no contact
\* of another user.
C20_PerUserIsolation ==
    [][ /\ (cres'.op = "create_contact" /\ CreateContact)
           => /\ Len(cres'.out) = 1
              /\ cres'.out[1].user_id = cres'.user_id
              /\ contacts'[contact_seq'] = cres'.out[1]
        /\ \A row \in RowsOf(cres'.out) : row.user_id = cres'.user_id
        /\ \A i \in DOMAIN contacts :
              contacts[i].user_id # cres'.user_id
              => (i \in DOMAIN contacts' /\ contacts'[i] = contacts[i]) ]_vars

\* a search returned contacts of its user while the table held another user's
C20_Witness ==
    /\ cres.op = "search_contacts"
    /\ cres.out # <<>>
    /\ \E i \in DOMAIN contacts :
          /\ contacts[i].user_id # cres.user_id
          /\ contacts[i].first_name = cres.out[1].first_name

---------------------------------------------------------------------------
(* Email confirmation (specification Spec) *)

\* C19: create_user stores the user with confirmed = FALSE; confirmed_email
\* for an existing user sets confirmed to TRUE in the users table, changes no
\* other field and no other row and returns None; applied to a confirmed
\* user it changes nothing; and no step of the system takes a confirmed flag
\* that is TRUE back to FALSE.
C19_ConfirmationMonotonic ==
    [][ /\ (res'.op = "create_user" /\ CreateUser)
           => /\ ~db'[res'.arg.email].confirmed
              /\ \A user \in res'.out.user : ~user.confirmed
        /\ \A e \in DOMAIN db :
              /\ (res'.op = "confirmed_email" /\ res'.arg.email = e /\ ConfirmedEmail)
                 => /\ db' = [db EXCEPT ![e].confirmed = TRUE]
                    /\ res'.out = ReturnNone
                    /\ db[e].confirmed => db' = db
              /\ db[e].confirmed => (e \in DOMAIN db' /\ db'[e].confirmed) ]_vars

\* a user confirmed earlier went through update_avatar and is still confirmed
C19_Witness ==
    \E e \in DOMAIN db :
        /\ res.op = "update_avatar"
        /\ res.arg.email = e
        /\ res.out.kind = "return"
        /\ db[e].confirmed
        /\ db[e].refresh_token = "rt1"

---------------------------------------------------------------------------
(* The issuer's own claims (specification SpecTokens) *)

IssuerOps == {"create_access_token", "create_refresh_token", "create_email_token"}

IssuedScope(op) ==
    CASE op = "create_access_token" -> "access_token"
      [] op = "create_refresh_token" -> "refresh_token"
      [] op = "create_email_token" -> "email_token"

IssuerTtl(op) ==
    CASE op = "create_access_token" -> 900
      [] op = "create_refresh_token" -> 604800
      [] op = "create_email_token" -> 86400

---------------------------------------------------------------------------
(* Cache keys (specification Spec) *)

\* C22: every key in the cache is "user:" + e for an email e, the value under
\* it is a pickled User whose email is e and whose id is that of e's row in
\* the users table, and every User get_current_user returns has the email
\* that is the subject of the token presented.
C22_CacheKeyIntegrity ==
    /\ \A key \in DOMAIN cache :
          \E e \in Emails :
              /\ key = "user:" \o e
              /\ cache[key].value.cls = "User"
              /\ cache[key].value.state.email = e
              /\ e \in DOMAIN db
              /\ cache[key].value.state.id = db[e].id
    /\ (res.op = "get_current_user" /\ res.out.kind = "return")
       => \A token \in res.arg.token, user \in res.out.user :
             user.email = token.claims["sub"]

\* a call was answered from the cache with the User of the token's subject
C22_Witness ==
    /\ res.op = "get_current_user"
    /\ res.out.kind = "return"
    /\ res.calls.lookup = 0
    /\ \E token \in res.arg.token, user \in res.out.user :
          /\ user.email = token.claims["sub"]
          /\ ("user:" \o user.email) \in DOMAIN cache
          /\ cache["user:" \o user.email].value.state = user

====
